---- MODULE Spec2Model ----
(***************************************************************************)
(* TrustGrid.AI feature engineering pipeline (ml/feature_engineering.py),  *)
(* explanation engine (ml/explain.py), synthetic dataset generator         *)
(* (ml/generate_synth.py) and the trainer's feature preparation            *)
(* (ml/train.py).                                                          *)
(*                                                                         *)
(* The FeatureEngineer object is the state: its config, its scaler store,  *)
(* its feature statistics and its fitted flag.  A TrustScoreExplainer adds *)
(* the loaded unit, the model, the feature names and the SHAP explainer;   *)
(* its feature_engineer is the FeatureEngineer of the state.  Every public *)
(* method is an action; the last call's name, argument, result and error   *)
(* are kept so that the contracts of the methods can be stated over states.*)
(*                                                                         *)
(* Numbers: Python floats are modelled as exact rationals <<n, d>> in      *)
(* lowest terms with d > 0; <<0, 0>> is NaN.  log1p and sqrt are evaluated *)
(* to two decimals.                                                        *)
(***************************************************************************)
EXTENDS Integers, Sequences, FiniteSets, TLC

VARIABLES config, scalers, feature_stats, is_fitted, disk, op, arg, ret, err,
          model_data, model, feature_names, explainer

vars == <<config, scalers, feature_stats, is_fitted, disk, op, arg, ret, err,
          model_data, model, feature_names, explainer>>

engineer == <<config, scalers, feature_stats, is_fitted>>

\* the fields a TrustScoreExplainer adds to its feature engineer
explainer_fields == <<model_data, model, feature_names, explainer>>

\* Python's None
None == [none |-> TRUE]

----------------------------------------------------------------------------
(* Bounds of the model *)

\* largest value of a raw count drawn for the extraction specification
MaxCount == 2

\* longest batch handed to fit_scalers
MaxBatch == 2

\* longest top_tokens list drawn for the extraction specification
MaxTokens == 2

----------------------------------------------------------------------------
(* Float arithmetic as exact rationals *)

NaN == <<0, 0>>

IsNaN(a) == a[2] = 0

Abs(n) == IF n < 0 THEN -n ELSE n

RECURSIVE Gcd(_, _)
Gcd(a, b) == IF b = 0 THEN a ELSE Gcd(b, a % b)

Norm(n, d) ==
    IF d = 0 THEN NaN
    ELSE LET g == Gcd(Abs(n), Abs(d))
             s == IF d < 0 THEN -1 ELSE 1
         IN  <<(s * n) \div g, (s * d) \div g>>

R(n) == <<n, 1>>

Q(n, d) == Norm(n, d)

Add(a, b) ==
    IF IsNaN(a) \/ IsNaN(b) THEN NaN
    ELSE LET g == Gcd(a[2], b[2])
         IN  Norm(a[1] * (b[2] \div g) + b[1] * (a[2] \div g), (a[2] \div g) * b[2])

Neg(a) == <<-a[1], a[2]>>

Sub(a, b) == Add(a, Neg(b))

Mul(a, b) ==
    IF IsNaN(a) \/ IsNaN(b) THEN NaN
    ELSE LET g1 == Gcd(Abs(a[1]), b[2])
             g2 == Gcd(Abs(b[1]), a[2])
         IN  Norm((a[1] \div g1) * (b[1] \div g2), (a[2] \div g2) * (b[2] \div g1))

\* numpy semantics for a zero divisor (nan); no call site of the model divides by zero
Div(a, b) ==
    IF IsNaN(a) \/ IsNaN(b) \/ b[1] = 0 THEN NaN
    ELSE Mul(a, Norm(b[2], b[1]))

\* comparisons with NaN are false, as in IEEE 754
Lt(a, b) ==
    /\ ~IsNaN(a)
    /\ ~IsNaN(b)
    /\ a[1] * (b[2] \div Gcd(a[2], b[2])) < b[1] * (a[2] \div Gcd(a[2], b[2]))

Gt(a, b) == Lt(b, a)

Le(a, b) ==
    /\ ~IsNaN(a)
    /\ ~IsNaN(b)
    /\ a[1] * (b[2] \div Gcd(a[2], b[2])) <= b[1] * (a[2] \div Gcd(a[2], b[2]))

AbsR(a) == <<Abs(a[1]), a[2]>>

\* Python's max(a, b) and min(a, b): the first argument unless the second beats it
Max(a, b) == IF Gt(b, a) THEN b ELSE a

Min(a, b) == IF Lt(b, a) THEN b ELSE a

\* np.sign
Sign(a) == IF IsNaN(a) THEN NaN ELSE IF a[1] > 0 THEN R(1) ELSE IF a[1] < 0 THEN R(-1) ELSE R(0)

Floor(a) == a[1] \div a[2]

RECURSIVE ISqrtIn(_, _, _)
ISqrtIn(n, lo, hi) ==
    IF lo >= hi THEN lo
    ELSE LET mid == (lo + hi + 1) \div 2
         IN  IF mid * mid <= n THEN ISqrtIn(n, mid, hi) ELSE ISqrtIn(n, lo, mid - 1)

ISqrt(n) == ISqrtIn(n, 0, IF n < 46340 THEN n ELSE 46340)

\* np.sqrt, to two decimals
Sqrt(a) ==
    IF IsNaN(a) \/ a[1] < 0 THEN NaN
    ELSE Norm(ISqrt(Floor(Mul(a, R(100))) * 100), 100)

\* 100 * ln(m) for a positive integer m, rounded
RECURSIVE LnCenti(_)
LnCenti(m) ==
    CASE m <= 1 -> 0
      [] m = 2 -> 69
      [] m = 3 -> 110
      [] m = 4 -> 139
      [] m = 5 -> 161
      [] m = 6 -> 179
      [] m = 7 -> 195
      [] m = 8 -> 208
      [] m = 9 -> 220
      [] m = 10 -> 230
      [] m = 11 -> 240
      [] m = 12 -> 248
      [] m = 13 -> 256
      [] m = 14 -> 264
      [] m = 15 -> 271
      [] m = 16 -> 277
      [] OTHER -> 69 + LnCenti(m \div 2)

\* np.log1p of a non-negative value n/d: ln(n + d) - ln(d), to two decimals
Log1p(a) ==
    IF IsNaN(a) \/ a[1] < 0 THEN NaN
    ELSE Norm(LnCenti(a[1] + a[2]) - LnCenti(a[2]), 100)

----------------------------------------------------------------------------
(* Dictionaries *)

EmptyDict == <<>>

\* dict.get(key, default)
Get(d, k, default) == IF k \in DOMAIN d THEN d[k] ELSE default

\* the sequences over S of length at most n
SeqsUpTo(S, n) == UNION {[1..k -> S] : k \in 0..n}

\* a dictionary with every entry evaluated (f @@ <<>> equals f)
Eager(f) == f @@ <<>>

\* {**a, **b}
Merge(a, b) == [k \in DOMAIN a \cup DOMAIN b |-> IF k \in DOMAIN b THEN b[k] ELSE a[k]]

----------------------------------------------------------------------------
(* Feature extraction *)

\* np.log1p(x) if self.config.use_log_transform else x
LogTwin(cfg, x) == IF cfg.use_log_transform THEN Log1p(x) ELSE x

\* sum(p**2 for p in percentages), percentages = token.get('percentage', 0) / 100
RECURSIVE SumSquaredShares(_)
SumSquaredShares(tokens) ==
    IF tokens = <<>> THEN R(0)
    ELSE LET n == Len(tokens)
             p == Div(Get(tokens[n], "percentage", R(0)), R(100))
         IN  Add(SumSquaredShares(SubSeq(tokens, 1, n - 1)), Mul(p, p))

TokenConcentration(top_tokens) ==
    IF top_tokens # <<>> THEN SumSquaredShares(top_tokens) ELSE R(1)

\* TokenDiversity without the branch for an empty portfolio
TokenDiversityNoEmptyCase(top_tokens) == Sub(R(1), SumSquaredShares(top_tokens))

TokenDiversity(top_tokens) ==
    IF top_tokens # <<>> THEN Sub(R(1), SumSquaredShares(top_tokens)) ELSE R(0)

\* Ratio with the floor of the denominator taken with min instead of max
RatioMinFloor(numerator, denominator) == Div(numerator, Min(denominator, R(1)))

\* numerator / max(denominator, 1)
Ratio(numerator, denominator) == Div(numerator, Max(denominator, R(1)))

extract_onchain_features(cfg, wallet_data) ==
    LET tx_count == Get(wallet_data, "total_transactions", R(0))
        contract_interactions == Get(wallet_data, "contract_interactions", R(0))
        unique_contracts == Get(wallet_data, "unique_contracts_interacted", R(0))
        avg_tx_value == Get(wallet_data, "average_transaction_value", R(0))
        swap_frequency == Get(wallet_data, "swap_frequency", R(0))
        bridge_txs == Get(wallet_data, "bridge_transactions", R(0))
        portfolio_volatility == Get(wallet_data, "portfolio_volatility", R(0))
        top_tokens == Get(wallet_data, "top_tokens", <<>>)
        account_age == Get(wallet_data, "account_age", R(0))
    IN  [tx_count |-> tx_count,
         tx_count_log |-> LogTwin(cfg, tx_count),
         contract_interactions |-> contract_interactions,
         contract_interaction_ratio |-> Ratio(contract_interactions, tx_count),
         unique_contracts |-> unique_contracts,
         contract_diversity |-> Ratio(unique_contracts, contract_interactions),
         avg_tx_value |-> avg_tx_value,
         avg_tx_value_log |-> LogTwin(cfg, avg_tx_value),
         swap_frequency |-> swap_frequency,
         swap_ratio |-> Ratio(swap_frequency, tx_count),
         bridge_transactions |-> bridge_txs,
         bridge_ratio |-> Ratio(bridge_txs, tx_count),
         portfolio_volatility |-> portfolio_volatility,
         portfolio_stability |-> Div(R(1), Add(R(1), portfolio_volatility)),
         token_count |-> R(Len(top_tokens)),
         token_concentration |-> TokenConcentration(top_tokens),
         token_diversity |-> TokenDiversity(top_tokens),
         account_age |-> account_age,
         account_age_log |-> LogTwin(cfg, account_age),
         tx_per_day |-> Ratio(tx_count, account_age)]

\* a Python bool used as a number
BoolNum(b) == IF b THEN 1 ELSE 0

extract_offchain_features(cfg, wallet_data) ==
    LET has_ens == Get(wallet_data, "has_ens", FALSE)
        farcaster_followers == Get(wallet_data, "farcaster_followers", R(0))
        github_contributions == Get(wallet_data, "github_contributions", R(0))
        social_signals == BoolNum(Gt(farcaster_followers, R(0)))
                          + BoolNum(Gt(github_contributions, R(0)))
                          + BoolNum(has_ens)
    IN  [has_ens |-> IF has_ens THEN R(1) ELSE R(0),
         farcaster_followers |-> farcaster_followers,
         farcaster_followers_log |-> LogTwin(cfg, farcaster_followers),
         has_farcaster |-> IF Gt(farcaster_followers, R(0)) THEN R(1) ELSE R(0),
         github_contributions |-> github_contributions,
         github_contributions_log |-> LogTwin(cfg, github_contributions),
         has_github |-> IF Gt(github_contributions, R(0)) THEN R(1) ELSE R(0),
         social_signal_count |-> R(social_signals),
         social_presence |-> Div(R(social_signals), R(3))]

create_composite_features(onchain_features, offchain_features) ==
    LET tx_count == Get(onchain_features, "tx_count", R(0))
        social_presence == Get(offchain_features, "social_presence", R(0))
        has_ens == Get(offchain_features, "has_ens", R(0))
        contract_diversity == Get(onchain_features, "contract_diversity", R(0))
        account_age == Get(onchain_features, "account_age", R(0))
        portfolio_volatility == Get(onchain_features, "portfolio_volatility", R(0))
        tx_per_day == Get(onchain_features, "tx_per_day", R(0))
        high_frequency_risk == IF Gt(tx_per_day, R(10)) THEN R(1) ELSE R(0)
        volatility_risk == Min(Div(portfolio_volatility, R(2)), R(1))
    IN  [activity_social_score |-> Mul(Sqrt(tx_count), Add(R(1), social_presence)),
         trust_indicators |->
             Add(Add(Mul(has_ens, Q(3, 10)),
                     Mul(Min(contract_diversity, R(1)), Q(4, 10))),
                 Mul(Min(Div(account_age, R(365)), R(1)), Q(3, 10))),
         risk_indicators |->
             Add(Mul(high_frequency_risk, Q(6, 10)), Mul(volatility_risk, Q(4, 10)))]

----------------------------------------------------------------------------
(* Batch statistics: pandas DataFrame reductions and the sklearn scalers *)

\* the columns of pd.DataFrame(feature_data): every key of every member
Columns(feature_data) == UNION {DOMAIN feature_data[i] : i \in DOMAIN feature_data}

\* the non-missing values of a column (the reductions skip NaN)
RECURSIVE ColumnValues(_, _)
ColumnValues(feature_data, column) ==
    IF feature_data = <<>> THEN <<>>
    ELSE LET n == Len(feature_data)
             rest == ColumnValues(SubSeq(feature_data, 1, n - 1), column)
             v == Get(feature_data[n], column, NaN)
         IN  IF IsNaN(v) THEN rest ELSE Append(rest, v)

RECURSIVE SumSeq(_)
SumSeq(vals) ==
    IF vals = <<>> THEN R(0)
    ELSE Add(SumSeq(SubSeq(vals, 1, Len(vals) - 1)), vals[Len(vals)])

RECURSIVE Insert(_, _)
Insert(sorted, v) ==
    IF sorted = <<>> THEN <<v>>
    ELSE IF Le(v, Head(sorted)) THEN <<v>> \o sorted
    ELSE <<Head(sorted)>> \o Insert(Tail(sorted), v)

RECURSIVE Sorted(_)
Sorted(vals) ==
    IF vals = <<>> THEN <<>>
    ELSE Insert(Sorted(SubSeq(vals, 1, Len(vals) - 1)), vals[Len(vals)])

Mean(vals) == IF vals = <<>> THEN NaN ELSE Div(SumSeq(vals), R(Len(vals)))

\* sum of squared deviations from the mean
SumSqDev(vals) ==
    LET m == Mean(vals)
    IN  SumSeq([i \in DOMAIN vals |-> Mul(Sub(vals[i], m), Sub(vals[i], m))])

\* DataFrame.std(): sample standard deviation (ddof = 1), NaN for a single value
SampleStd(vals) ==
    IF Len(vals) < 2 THEN NaN ELSE Sqrt(Div(SumSqDev(vals), R(Len(vals) - 1)))

\* StandardScaler: population standard deviation (ddof = 0)
PopulationStd(vals) ==
    IF vals = <<>> THEN NaN ELSE Sqrt(Div(SumSqDev(vals), R(Len(vals))))

MinOf(vals) == IF vals = <<>> THEN NaN ELSE Sorted(vals)[1]

MaxOf(vals) == IF vals = <<>> THEN NaN ELSE Sorted(vals)[Len(vals)]

\* np.nanpercentile with linear interpolation; q = qn / 4
Quartile(vals, qn) ==
    IF vals = <<>> THEN NaN
    ELSE LET s == Sorted(vals)
             pos == Q((Len(vals) - 1) * qn, 4)
             lo == Floor(pos)
             frac == Sub(pos, R(lo))
         IN  IF lo + 1 >= Len(vals) THEN s[lo + 1]
             ELSE Add(s[lo + 1], Mul(frac, Sub(s[lo + 2], s[lo + 1])))

Median(vals) == Quartile(vals, 2)

\* sklearn's _handle_zeros_in_scale: a zero spread scales by 1
HandleZeros(scale) == IF ~IsNaN(scale) /\ scale[1] = 0 THEN R(1) ELSE scale

\* RobustScaler().fit(values): median and interquartile range
RobustScalerFit(vals) ==
    [kind |-> "RobustScaler",
     center |-> Median(vals),
     scale |-> HandleZeros(Sub(Quartile(vals, 3), Quartile(vals, 1)))]

\* StandardScaler().fit(values): mean and population standard deviation
StandardScalerFit(vals) ==
    [kind |-> "StandardScaler",
     center |-> Mean(vals),
     scale |-> HandleZeros(PopulationStd(vals))]

\* scaler.transform([[value]])[0][0]
ScalerTransform(scaler, value) == Div(Sub(value, scaler.center), scaler.scale)

----------------------------------------------------------------------------
(* Configurations and wallet records *)

Configs ==
    {[use_log_transform |-> l, use_robust_scaling |-> r,
      handle_outliers |-> h, outlier_threshold |-> R(3)] : l, r, h \in BOOLEAN}

Token(pct) == [percentage |-> R(pct), symbol |-> "TKN"]

\* the empty record: every key missing
EmptyRecord == <<>>

\* a record with every recognized key
FullRecord ==
    [total_transactions |-> R(4), contract_interactions |-> R(2),
     unique_contracts_interacted |-> R(1), average_transaction_value |-> Q(1, 2),
     swap_frequency |-> R(1), bridge_transactions |-> R(1),
     portfolio_volatility |-> Q(1, 2), account_age |-> R(73), has_ens |-> TRUE,
     farcaster_followers |-> R(2), github_contributions |-> R(1),
     top_tokens |-> <<Token(60), Token(40)>>]

\* a record with some keys missing and a token without a percentage
PartialRecord ==
    [total_transactions |-> R(2), contract_interactions |-> R(3),
     farcaster_followers |-> R(5), top_tokens |-> <<[symbol |-> "TKN"]>>]

\* a record far from the others in the clipped features
ExtremeRecord ==
    [total_transactions |-> R(400), contract_interactions |-> R(90),
     swap_frequency |-> R(40), account_age |-> R(20), has_ens |-> FALSE,
     github_contributions |-> R(300), top_tokens |-> <<Token(100)>>]

Records == {EmptyRecord, FullRecord, PartialRecord, ExtremeRecord}

\* AllFeatures with the composite features left out of the union
AllFeaturesNoComposite(cfg, wallet_data) ==
    Merge(extract_onchain_features(cfg, wallet_data),
          extract_offchain_features(cfg, wallet_data))

\* {**onchain_features, **offchain_features, **composite_features}
CombinedFeatures(onchain_features, offchain_features) ==
    Merge(Merge(onchain_features, offchain_features),
          create_composite_features(onchain_features, offchain_features))

\* the features engineer_features collects before the outlier handling
AllFeatures(cfg, wallet_data) ==
    CombinedFeatures(extract_onchain_features(cfg, wallet_data),
                     extract_offchain_features(cfg, wallet_data))

\* AllFeatures, evaluated once for the configurations and records of the model
AllFeaturesTable ==
    Eager([cfg \in Configs |-> Eager([wd \in Records |-> Eager(AllFeatures(cfg, wd))])])

AllFeaturesOf(cfg, wallet_data) == AllFeaturesTable[cfg][wallet_data]

----------------------------------------------------------------------------
(* The FeatureEngineer methods; self is the engineer's state *)

\* FeatureConfig's defaults
DefaultConfig ==
    [use_log_transform |-> TRUE, use_robust_scaling |-> TRUE,
     handle_outliers |-> TRUE, outlier_threshold |-> R(3)]

\* FeatureEngineer(config)
NewEngineer(cfg) ==
    [config |-> cfg, scalers |-> EmptyDict, feature_stats |-> EmptyDict, is_fitted |-> FALSE]

Self ==
    [config |-> config, scalers |-> scalers,
     feature_stats |-> feature_stats, is_fitted |-> is_fitted]

\* the features _handle_outliers clips
continuous_features ==
    {"tx_count", "contract_interactions", "avg_tx_value", "swap_frequency",
     "portfolio_volatility", "account_age", "farcaster_followers", "github_contributions"}

\* ClippedValue that always clips to the upper bound
ClippedValueUpper(self, feature_name, value) ==
    Add(self.feature_stats.mean[feature_name],
        Mul(self.config.outlier_threshold, self.feature_stats.std[feature_name]))

\* mean + np.sign(value - mean) * outlier_threshold * std
ClippedValue(self, feature_name, value) ==
    LET mean == self.feature_stats.mean[feature_name]
        std == self.feature_stats.std[feature_name]
    IN  Add(mean, Mul(Mul(Sign(Sub(value, mean)), self.config.outlier_threshold), std))

\* the test that guards the clipping of one feature
IsOutlier(self, feature_name, value) ==
    /\ self.is_fitted
    /\ feature_name \in DOMAIN self.feature_stats.mean
    /\ Gt(AbsR(Sub(value, self.feature_stats.mean[feature_name])),
          Mul(self.config.outlier_threshold, self.feature_stats.std[feature_name]))

\* handle_outliers with a fixed cap of 100 when no statistics are fitted
handle_outliers_DefaultCap(self, features) ==
    [k \in DOMAIN features |->
        IF k \in continuous_features
        THEN IF self.is_fitted
             THEN IF IsOutlier(self, k, features[k])
                  THEN ClippedValue(self, k, features[k])
                  ELSE features[k]
             ELSE Min(features[k], R(100))
        ELSE features[k]]

handle_outliers(self, features) ==
    [k \in DOMAIN features |->
        IF k \in continuous_features /\ IsOutlier(self, k, features[k])
        THEN ClippedValue(self, k, features[k])
        ELSE features[k]]

\* if self.config.handle_outliers: all_features = self._handle_outliers(all_features)
OutliersHandled(self, all_features) ==
    IF self.config.handle_outliers THEN handle_outliers(self, all_features) ELSE all_features

engineer_features(self, wallet_data) ==
    OutliersHandled(self, AllFeaturesOf(self.config, wallet_data))

\* self.feature_stats of fit_scalers
FeatureStats(feature_data) ==
    LET cols == Columns(feature_data)
    IN  [mean |-> Eager([c \in cols |-> Mean(ColumnValues(feature_data, c))]),
         std |-> Eager([c \in cols |-> SampleStd(ColumnValues(feature_data, c))]),
         min |-> Eager([c \in cols |-> MinOf(ColumnValues(feature_data, c))]),
         max |-> Eager([c \in cols |-> MaxOf(ColumnValues(feature_data, c))]),
         median |-> Eager([c \in cols |-> Median(ColumnValues(feature_data, c))])]

\* the scaler fit_scalers fits to one column
FittedScaler(cfg, vals) ==
    IF cfg.use_robust_scaling THEN RobustScalerFit(vals) ELSE StandardScalerFit(vals)

\* FittedColumns over the keys of the first member only
FittedColumnsOfFirstMember(cfg, feature_data) ==
    Eager([c \in DOMAIN feature_data[1] |->
              FittedScaler(cfg, ColumnValues(feature_data, c))])

\* the scalers the loop over df.columns fits, by column
FittedColumns(cfg, feature_data) ==
    Eager([c \in Columns(feature_data) |->
              FittedScaler(cfg, ColumnValues(feature_data, c))])

\* transform_features that returns nothing when the scalers are not fitted
transform_features_EmptyWhenUnfitted(self, features) ==
    IF ~self.is_fitted THEN EmptyDict
    ELSE [k \in DOMAIN features |->
             IF k \in DOMAIN self.scalers
             THEN ScalerTransform(self.scalers[k], features[k])
             ELSE features[k]]

\* transform_features that keeps only the features that have a scaler
transform_features_DropsUnscaled(self, features) ==
    IF ~self.is_fitted THEN features
    ELSE [k \in DOMAIN features \cap DOMAIN self.scalers |->
             ScalerTransform(self.scalers[k], features[k])]

transform_features(self, features) ==
    IF ~self.is_fitted THEN features
    ELSE [k \in DOMAIN features |->
             IF k \in DOMAIN self.scalers
             THEN ScalerTransform(self.scalers[k], features[k])
             ELSE features[k]]

\* what save_scalers leaves on disk
NoFile == <<>>

save_scalers(self, file) ==
    IF self.is_fitted
    THEN [scalers |-> self.scalers, feature_stats |-> self.feature_stats,
          config |-> self.config]
    ELSE file

\* load_scalers that keeps the config the engineer was constructed with
load_scalers_KeepsConfig(self, data) ==
    [config |-> self.config,
     scalers |-> data.scalers,
     feature_stats |-> data.feature_stats,
     is_fitted |-> TRUE]

\* load_scalers of an existing file
load_scalers(self, data) ==
    [config |-> Get(data, "config", DefaultConfig),
     scalers |-> data.scalers,
     feature_stats |-> data.feature_stats,
     is_fitted |-> TRUE]

----------------------------------------------------------------------------
(* Feature maps and batches *)

\* a feature map whose keys are not those engineer_features emits
OtherKeysMap == [tx_count |-> R(6), extra |-> R(1)]

\* the feature maps a batch is made of: engineered before any fit, as the trainer does
BatchMembers(cfg) ==
    {engineer_features(NewEngineer(cfg), r) : r \in {EmptyRecord, FullRecord}}
        \cup {OtherKeysMap}

FeatureData(cfg) == SeqsUpTo(BatchMembers(cfg), MaxBatch)

\* a training set with one record far from the eleven others
OutlierRecords == [i \in 1..12 |-> IF i < 12 THEN EmptyRecord ELSE ExtremeRecord]

\* its feature maps, engineered before any fit, as the trainer does
OutlierFeatureData(cfg) ==
    [i \in DOMAIN OutlierRecords |-> engineer_features(NewEngineer(cfg), OutlierRecords[i])]

\* the batches of engineered feature maps only
TrainingData(cfg) == SeqsUpTo(BatchMembers(cfg) \ {OtherKeysMap}, MaxBatch)

\* the batches, FeatureStats and FittedColumns, evaluated once for the model
FeatureDataTable == Eager([cfg \in Configs |-> FeatureData(cfg)])

TrainingDataTable == Eager([cfg \in Configs |-> TrainingData(cfg)])

AllFeatureData ==
    UNION {FeatureDataTable[cfg] \cup {OutlierFeatureData(cfg)} : cfg \in Configs}

FeatureStatsTable == Eager([fd \in AllFeatureData \ {<<>>} |-> FeatureStats(fd)])

FittedColumnsTable ==
    Eager([cfg \in Configs |->
        Eager([fd \in (FeatureDataTable[cfg] \cup {OutlierFeatureData(cfg)}) \ {<<>>} |->
                  FittedColumns(cfg, fd)])])

FeatureStatsOf(feature_data) == FeatureStatsTable[feature_data]

FittedColumnsOf(cfg, feature_data) == FittedColumnsTable[cfg][feature_data]

\* fit_scalers without the check for an empty batch
fit_scalers_NoEmptyCheck(self, feature_data) ==
    [self |-> [config |-> self.config,
               scalers |-> IF feature_data = <<>> THEN self.scalers
                           ELSE Merge(self.scalers, FittedColumnsOf(self.config, feature_data)),
               feature_stats |-> IF feature_data = <<>> THEN FeatureStats(<<>>)
                                 ELSE FeatureStatsOf(feature_data),
               is_fitted |-> TRUE],
     err |-> "none"]

\* fit_scalers: the engineer afterwards and the error raised
fit_scalers(self, feature_data) ==
    IF feature_data = <<>>
    THEN [self |-> self, err |-> "ValueError"]
    ELSE [self |-> [config |-> self.config,
                    scalers |-> Merge(self.scalers, FittedColumnsOf(self.config, feature_data)),
                    feature_stats |-> FeatureStatsOf(feature_data),
                    is_fitted |-> TRUE],
          err |-> "none"]

\* the feature maps handed to transform_features
FeatureMaps(self) == {engineer_features(self, r) : r \in Records} \cup {OtherKeysMap}

----------------------------------------------------------------------------
(* The engineer's life: one action per method call *)

\* no TrustScoreExplainer has been constructed
NoExplainer ==
    /\ model_data = None
    /\ model = None
    /\ feature_names = <<>>
    /\ explainer = None

Init ==
    /\ config \in Configs
    /\ scalers = EmptyDict
    /\ feature_stats = EmptyDict
    /\ is_fitted = FALSE
    /\ disk = NoFile
    /\ op = "init"
    /\ arg = <<>>
    /\ ret = <<>>
    /\ err = "none"
    /\ NoExplainer

EngineerFeatures ==
    \E wallet_data \in Records :
        /\ op' = "engineer_features"
        /\ arg' = wallet_data
        /\ ret' = engineer_features(Self, wallet_data)
        /\ err' = "none"
        /\ UNCHANGED <<config, scalers, feature_stats, is_fitted, disk, explainer_fields>>

\* one call of fit_scalers
FitScalersOn(feature_data) ==
    \E out \in {fit_scalers(Self, feature_data)} :
        /\ op' = "fit_scalers"
        /\ arg' = feature_data
        /\ ret' = <<>>
        /\ err' = out.err
        /\ scalers' = out.self.scalers
        /\ feature_stats' = out.self.feature_stats
        /\ is_fitted' = out.self.is_fitted
        /\ UNCHANGED <<config, disk, explainer_fields>>

FitScalers == \E feature_data \in FeatureDataTable[config] : FitScalersOn(feature_data)

\* fit_scalers as the trainer calls it, on a batch of engineered feature maps
FitTrainingBatch == \E feature_data \in TrainingDataTable[config] : FitScalersOn(feature_data)

\* TransformFeatures that stores a pass-through entry for every feature without a scaler
TransformFeaturesAddsEntries ==
    \E features \in FeatureMaps(Self) :
        /\ op' = "transform_features"
        /\ arg' = features
        /\ ret' = transform_features(Self, features)
        /\ err' = "none"
        /\ scalers' = Merge([k \in DOMAIN features |->
                                [kind |-> "none", center |-> R(0), scale |-> R(1)]],
                            scalers)
        /\ UNCHANGED <<config, feature_stats, is_fitted, disk, explainer_fields>>

\* TransformFeatures that moves the center of every scaler it used to the value
\* it was given, after scaling the value (an incremental update of the scalers)
TransformFeaturesUpdatesScalers ==
    \E features \in FeatureMaps(Self) :
        /\ op' = "transform_features"
        /\ arg' = features
        /\ ret' = transform_features(Self, features)
        /\ err' = "none"
        /\ scalers' = [k \in DOMAIN scalers |->
                          IF k \in DOMAIN features
                          THEN [scalers[k] EXCEPT !.center = features[k]]
                          ELSE scalers[k]]
        /\ UNCHANGED <<config, feature_stats, is_fitted, disk, explainer_fields>>

TransformFeatures ==
    \E features \in FeatureMaps(Self) :
        /\ op' = "transform_features"
        /\ arg' = features
        /\ ret' = transform_features(Self, features)
        /\ err' = "none"
        /\ UNCHANGED <<config, scalers, feature_stats, is_fitted, disk, explainer_fields>>

SaveScalers ==
    /\ op' = "save_scalers"
    /\ arg' = <<>>
    /\ ret' = <<>>
    /\ err' = "none"
    /\ disk' = save_scalers(Self, disk)
    /\ UNCHANGED <<config, scalers, feature_stats, is_fitted, explainer_fields>>

LoadScalers ==
    /\ op' = "load_scalers"
    /\ arg' = <<>>
    /\ ret' = <<>>
    /\ IF disk = NoFile
       THEN /\ err' = "FileNotFoundError"
            /\ UNCHANGED <<config, scalers, feature_stats, is_fitted>>
       ELSE LET out == load_scalers(Self, disk)
            IN  /\ err' = "none"
                /\ config' = out.config
                /\ scalers' = out.scalers
                /\ feature_stats' = out.feature_stats
                /\ is_fitted' = out.is_fitted
    /\ UNCHANGED <<disk, explainer_fields>>

Next == EngineerFeatures \/ FitScalers \/ TransformFeatures

Spec == Init /\ [][Next]_vars

----------------------------------------------------------------------------
(* The engineer with its scalers saved to and loaded from one file *)

InitPersist == Init /\ config = DefaultConfig

NextPersist ==
    EngineerFeatures \/ FitTrainingBatch \/ TransformFeatures \/ SaveScalers \/ LoadScalers

SpecPersist == InitPersist /\ [][NextPersist]_vars

----------------------------------------------------------------------------
(* Feature extraction on its own: the record is drawn first, then extracted *)

\* records over every combination of the five counts the ratios are made of
CountRecords ==
    {[total_transactions |-> R(a), contract_interactions |-> R(b),
      unique_contracts_interacted |-> R(c), swap_frequency |-> R(d),
      bridge_transactions |-> R(e)] : a, b, c, d, e \in 0..MaxCount}

TokenPool == {Token(40), Token(60), Token(100), [symbol |-> "TKN"]}

\* records over every token list up to MaxTokens holdings
TokenRecords == {[top_tokens |-> toks] : toks \in SeqsUpTo(TokenPool, MaxTokens)}

WideRecords == CountRecords \cup TokenRecords \cup {EmptyRecord}

InitExtract ==
    /\ config \in {cfg \in Configs : cfg.use_robust_scaling /\ cfg.handle_outliers}
    /\ scalers = EmptyDict
    /\ feature_stats = EmptyDict
    /\ is_fitted = FALSE
    /\ disk = NoFile
    /\ op = "init"
    /\ arg \in WideRecords
    /\ ret = <<>>
    /\ err = "none"
    /\ NoExplainer

ExtractOnchainFeatures ==
    /\ op = "init"
    /\ op' = "extract_onchain_features"
    /\ ret' = extract_onchain_features(config, arg)
    /\ UNCHANGED <<config, scalers, feature_stats, is_fitted, disk, arg, err, explainer_fields>>

NextExtract == ExtractOnchainFeatures

SpecExtract == InitExtract /\ [][NextExtract]_vars

----------------------------------------------------------------------------
(* Claims about extract_onchain_features, checked under SpecExtract *)

Extracted == op = "extract_onchain_features"

RatioNames == {"contract_interaction_ratio", "contract_diversity", "swap_ratio", "bridge_ratio"}

\* the raw keys a ratio is made of: <<numerator, denominator>>
RatioKeys ==
    [contract_interaction_ratio |-> <<"contract_interactions", "total_transactions">>,
     contract_diversity |-> <<"unique_contracts_interacted", "contract_interactions">>,
     swap_ratio |-> <<"swap_frequency", "total_transactions">>,
     bridge_ratio |-> <<"bridge_transactions", "total_transactions">>]

Raw(wallet_data, key) == Get(wallet_data, key, R(0))

NonNegativeCounts(wallet_data) ==
    \A key \in {"total_transactions", "contract_interactions",
                "unique_contracts_interacted", "swap_frequency", "bridge_transactions"} :
        Le(R(0), Raw(wallet_data, key))

InUnitInterval(x) == Le(R(0), x) /\ Le(x, R(1))

\* C2 as stated: for non-negative counts, with no relation assumed between them,
\* the four ratios lie in [0, 1].
C2_RatiosInUnitInterval ==
    (Extracted /\ NonNegativeCounts(arg)) =>
        \A name \in RatioNames : InUnitInterval(ret[name])

\* C2 amended: for non-negative counts every one of the four ratios is at least 0,
\* and it is at most 1 exactly when its numerator is at most max(denominator, 1).
C2_RatiosBounded ==
    (Extracted /\ NonNegativeCounts(arg)) =>
        \A name \in RatioNames :
            LET numerator == Raw(arg, RatioKeys[name][1])
                denominator == Raw(arg, RatioKeys[name][2])
            IN  /\ Le(R(0), ret[name])
                /\ Le(ret[name], R(1)) <=>
                       (Le(numerator, denominator) \/ Le(numerator, R(1)))

\* a ratio strictly inside (0, 1) and, in the same record, a ratio above 1
C2_Witness ==
    /\ Extracted
    /\ ret.swap_ratio = Q(1, 2)
    /\ Gt(ret.contract_diversity, R(1))

\* sum of the squared integer percentages of a token list
RECURSIVE SumSquaredPercent(_)
SumSquaredPercent(tokens) ==
    IF tokens = <<>> THEN 0
    ELSE LET pct == Get(Head(tokens), "percentage", R(0))[1]
         IN  pct * pct + SumSquaredPercent(Tail(tokens))

\* C3: with a non-empty top_tokens list token_concentration is the sum of the squared
\* shares (percentage / 100) and token_concentration + token_diversity = 1; with an
\* empty or absent list token_concentration = 1 and token_diversity = 0.
C3_TokenConcentration ==
    Extracted =>
        LET top_tokens == Get(arg, "top_tokens", <<>>)
        IN  IF top_tokens # <<>>
            THEN /\ ret.token_concentration = Q(SumSquaredPercent(top_tokens), 10000)
                 /\ Add(ret.token_concentration, ret.token_diversity) = R(1)
            ELSE /\ ret.token_concentration = R(1)
                 /\ ret.token_diversity = R(0)

\* holdings of 60% and 40%: concentration 0.52, diversity 0.48
C3_Witness ==
    /\ Extracted
    /\ Len(Get(arg, "top_tokens", <<>>)) = 2
    /\ ret.token_concentration = Q(52, 100)
    /\ ret.token_diversity = Q(48, 100)

----------------------------------------------------------------------------
(* Claims about the engineer's methods, checked under Spec *)

OnchainNames ==
    {"tx_count", "tx_count_log", "contract_interactions", "contract_interaction_ratio",
     "unique_contracts", "contract_diversity", "avg_tx_value", "avg_tx_value_log",
     "swap_frequency", "swap_ratio", "bridge_transactions", "bridge_ratio",
     "portfolio_volatility", "portfolio_stability", "token_count",
     "token_concentration", "token_diversity", "account_age", "account_age_log",
     "tx_per_day"}

OffchainNames ==
    {"has_ens", "farcaster_followers", "farcaster_followers_log", "has_farcaster",
     "github_contributions", "github_contributions_log", "has_github",
     "social_signal_count", "social_presence"}

CompositeNames == {"activity_social_score", "trust_indicators", "risk_indicators"}

FeatureNames == OnchainNames \cup OffchainNames \cup CompositeNames

\* the features that carry a raw count or value, and the raw key each is read from
SignalOf ==
    [tx_count |-> "total_transactions",
     contract_interactions |-> "contract_interactions",
     unique_contracts |-> "unique_contracts_interacted",
     avg_tx_value |-> "average_transaction_value",
     swap_frequency |-> "swap_frequency",
     bridge_transactions |-> "bridge_transactions",
     portfolio_volatility |-> "portfolio_volatility",
     token_count |-> "top_tokens",
     account_age |-> "account_age",
     farcaster_followers |-> "farcaster_followers",
     github_contributions |-> "github_contributions"]

Engineered == op = "engineer_features"

\* C1 as stated: in the unfitted and in the fitted state engineer_features returns the
\* fixed set of feature names, and a feature whose signal is absent is 0.
C1_AbsentSignalIsZero ==
    Engineered =>
        /\ DOMAIN ret = FeatureNames
        /\ \A k \in DOMAIN SignalOf : SignalOf[k] \notin DOMAIN arg => ret[k] = R(0)

\* C1 amended: in the unfitted and in the fitted state engineer_features returns the
\* fixed set of feature names; a feature whose signal is absent is 0, unless it is one
\* of the clipped features, the engineer is fitted with outlier handling on and 0 lies
\* beyond the threshold, when it is the clipped value of 0.
C1_FixedKeySet ==
    Engineered =>
        /\ DOMAIN ret = FeatureNames
        /\ \A k \in DOMAIN SignalOf :
              SignalOf[k] \notin DOMAIN arg =>
                  IF /\ config.handle_outliers
                     /\ k \in continuous_features
                     /\ IsOutlier(Self, k, R(0))
                  THEN ret[k] = ClippedValue(Self, k, R(0))
                  ELSE ret[k] = R(0)

\* the empty record on a fitted engineer, with the absent tx_count clipped away from 0
C1_Witness ==
    /\ Engineered
    /\ is_fitted
    /\ arg = EmptyRecord
    /\ DOMAIN ret = FeatureNames
    /\ ret.tx_count # R(0)
    /\ ret.swap_frequency = R(0)

\* C4: fit_scalers with an empty batch fails with ValueError and leaves the scaler
\* store, the feature statistics and the fitted flag as they were.
C4_EmptyBatchRejected ==
    [][(op' = "fit_scalers" /\ arg' = <<>>) =>
          /\ err' = "ValueError"
          /\ scalers' = scalers
          /\ feature_stats' = feature_stats
          /\ is_fitted' = is_fitted]_vars

\* the empty batch rejected by an engineer that stays unfitted
C4_Witness ==
    /\ op = "fit_scalers"
    /\ arg = <<>>
    /\ err = "ValueError"
    /\ ~is_fitted

Transformed == op = "transform_features"

\* C5: on an engineer that was never fitted transform_features returns its input
\* unchanged and raises nothing.
C5_UnfittedTransformIsIdentity ==
    (Transformed /\ ~is_fitted) => (ret = arg /\ err = "none")

\* an engineered map of a full record handed back unchanged
C5_Witness ==
    /\ Transformed
    /\ ~is_fitted
    /\ DOMAIN arg = FeatureNames
    /\ arg.tx_count = R(4)
    /\ ret = arg

\* C6: on a fitted engineer transform_features returns a map over the keys of its
\* input; a feature with an entry in the scaler store becomes (value - center) / scale
\* of that entry, a feature without one keeps its value.
C6_TransformScalesStoredFeatures ==
    (Transformed /\ is_fitted) =>
        /\ DOMAIN ret = DOMAIN arg
        /\ \A k \in DOMAIN arg :
              IF k \in DOMAIN scalers
              THEN ret[k] = Div(Sub(arg[k], scalers[k].center), scalers[k].scale)
              ELSE ret[k] = arg[k]

\* a map with one feature scaled and one feature the store has no entry for
C6_Witness ==
    /\ Transformed
    /\ is_fitted
    /\ "extra" \in DOMAIN arg
    /\ "extra" \notin DOMAIN scalers
    /\ ret.extra = arg.extra
    /\ ret.tx_count # arg.tx_count

\* C7: before any fit engineer_features returns the same map with handle_outliers
\* enabled as with it disabled.
C7_NoOutlierHandlingBeforeFit ==
    (Engineered /\ ~is_fitted) =>
        /\ ret = engineer_features([Self EXCEPT !.config.handle_outliers = TRUE], arg)
        /\ ret = engineer_features([Self EXCEPT !.config.handle_outliers = FALSE], arg)

\* the extreme record engineered unfitted with outlier handling enabled
C7_Witness ==
    /\ Engineered
    /\ ~is_fitted
    /\ config.handle_outliers
    /\ arg = ExtremeRecord
    /\ ret.tx_count = R(400)

\* |value - mean| > outlier_threshold * std, for a feature with fitted statistics
BeyondThreshold(k, value) ==
    /\ k \in DOMAIN feature_stats.mean
    /\ Gt(AbsR(Sub(value, feature_stats.mean[k])),
          Mul(config.outlier_threshold, feature_stats.std[k]))

\* C8: on a fitted engineer outlier handling changes only the eight whitelisted
\* features: a whitelisted value beyond the threshold becomes
\* mean + threshold * std * sign(value - mean), every other value is unchanged.
C8_ClipsOnlyWhitelisted ==
    (Engineered /\ is_fitted /\ config.handle_outliers) =>
        LET raw == AllFeatures(config, arg)
        IN  \A k \in DOMAIN raw :
              IF k \in continuous_features /\ BeyondThreshold(k, raw[k])
              THEN ret[k] = Add(feature_stats.mean[k],
                                Mul(Mul(config.outlier_threshold, feature_stats.std[k]),
                                    Sign(Sub(raw[k], feature_stats.mean[k]))))
              ELSE ret[k] = raw[k]

\* the extreme record: tx_count clipped from above, a value within the threshold kept
C8_Witness ==
    /\ Engineered
    /\ is_fitted
    /\ config.handle_outliers
    /\ arg = ExtremeRecord
    /\ Lt(ret.tx_count, R(400))
    /\ Gt(ret.tx_count, feature_stats.mean.tx_count)
    /\ ret.account_age = R(20)
    /\ ret.unique_contracts = R(0)

\* C10 as stated: a successful fit_scalers sets the fitted flag and leaves the store
\* with exactly the feature names of the batch's first member.
C10_StoreHoldsFirstMemberNames ==
    (op = "fit_scalers" /\ err = "none") =>
        (is_fitted /\ DOMAIN scalers = DOMAIN arg[1])

\* C10 amended: a successful fit_scalers sets the fitted flag and leaves the store
\* with one entry for every feature name of any member of the batch, next to the
\* entries under other names that the store held before the call.
C10_StoreHoldsBatchColumns ==
    [][(op' = "fit_scalers" /\ err' = "none") =>
          /\ is_fitted'
          /\ DOMAIN scalers' = DOMAIN scalers \cup Columns(arg')
          /\ \A k \in DOMAIN scalers \ Columns(arg') : scalers'[k] = scalers[k]]_vars

\* a first fit on a batch whose second member carries a key the first does not
C10_Witness ==
    /\ op = "fit_scalers"
    /\ err = "none"
    /\ is_fitted
    /\ Len(arg) = 2
    /\ "extra" \notin DOMAIN arg[1]
    /\ "extra" \in DOMAIN arg[2]
    /\ DOMAIN scalers = FeatureNames \cup {"extra"}

----------------------------------------------------------------------------
(* Claims about the life of the scaler store, checked under SpecPersist *)

\* C9 as stated: once a fit_scalers call has succeeded no later call, a further
\* fit_scalers included, changes a scaler entry or a statistic.
C9_StoreImmutableOnceFitted ==
    [][is_fitted => (scalers' = scalers /\ feature_stats' = feature_stats)]_vars

\* C9 amended: once the engineer is fitted, engineer_features, transform_features,
\* save_scalers and every call that fails leave the scaler entries and the statistics
\* as they are; only a later successful fit_scalers or load_scalers replaces them.
C9_StoreChangedOnlyByFitOrLoad ==
    [][(is_fitted /\ ~(op' \in {"fit_scalers", "load_scalers"} /\ err' = "none")) =>
          (scalers' = scalers /\ feature_stats' = feature_stats)]_vars

\* the store saved after one fit, refitted to other statistics, then used to transform
C9_Witness ==
    /\ is_fitted
    /\ disk # NoFile
    /\ disk.feature_stats # feature_stats
    /\ disk.scalers # scalers
    /\ Transformed
    /\ ret # arg

----------------------------------------------------------------------------
(* The explanation engine: TrustScoreExplainer (ml/explain.py) *)

\* self.feature_descriptions
feature_descriptions ==
    [tx_count_log |-> "Transaction history depth",
     contract_interaction_ratio |-> "Smart contract usage frequency",
     unique_contracts |-> "Diversity of contract interactions",
     account_age_log |-> "Account maturity",
     swap_ratio |-> "DeFi trading activity",
     portfolio_stability |-> "Portfolio risk management",
     token_diversity |-> "Asset diversification",
     has_ens |-> "ENS domain ownership",
     social_presence |-> "Social media engagement",
     trust_indicators |-> "Overall trust signals",
     activity_social_score |-> "Activity-social composite",
     bridge_ratio |-> "Cross-chain activity",
     risk_indicators |-> "Risk factors",
     avg_tx_value_log |-> "Transaction size patterns",
     contract_diversity |-> "Contract interaction diversity",
     farcaster_followers_log |-> "Farcaster social presence",
     github_contributions_log |-> "Developer activity"]

\* str.lower() on the descriptions; a feature name is lower case already
Lower(text) ==
    CASE text = "Transaction history depth" -> "transaction history depth"
      [] text = "Smart contract usage frequency" -> "smart contract usage frequency"
      [] text = "Diversity of contract interactions" -> "diversity of contract interactions"
      [] text = "Account maturity" -> "account maturity"
      [] text = "DeFi trading activity" -> "defi trading activity"
      [] text = "Portfolio risk management" -> "portfolio risk management"
      [] text = "Asset diversification" -> "asset diversification"
      [] text = "ENS domain ownership" -> "ens domain ownership"
      [] text = "Social media engagement" -> "social media engagement"
      [] text = "Overall trust signals" -> "overall trust signals"
      [] text = "Activity-social composite" -> "activity-social composite"
      [] text = "Cross-chain activity" -> "cross-chain activity"
      [] text = "Risk factors" -> "risk factors"
      [] text = "Transaction size patterns" -> "transaction size patterns"
      [] text = "Contract interaction diversity" -> "contract interaction diversity"
      [] text = "Farcaster social presence" -> "farcaster social presence"
      [] text = "Developer activity" -> "developer activity"
      [] OTHER -> text

\* get_feature_importance_weights()
feature_weights ==
    [tx_count_log |-> Q(15, 100),
     contract_interaction_ratio |-> Q(12, 100),
     unique_contracts |-> Q(10, 100),
     account_age_log |-> Q(10, 100),
     swap_ratio |-> Q(8, 100),
     portfolio_stability |-> Q(8, 100),
     token_diversity |-> Q(6, 100),
     has_ens |-> Q(5, 100),
     social_presence |-> Q(5, 100),
     trust_indicators |-> Q(8, 100),
     activity_social_score |-> Q(6, 100),
     bridge_ratio |-> Q(4, 100),
     risk_indicators |-> Q(-3, 100)]

\* the models a unit may hold: whether the object has predict, whether it is
\* tree based (estimators_ or XGB), and whether shap can build its explainer
Models ==
    {[has_predict |-> TRUE, tree |-> TRUE, shap_init_ok |-> TRUE],
     [has_predict |-> TRUE, tree |-> FALSE, shap_init_ok |-> TRUE],
     [has_predict |-> TRUE, tree |-> FALSE, shap_init_ok |-> FALSE],
     [has_predict |-> FALSE, tree |-> FALSE, shap_init_ok |-> TRUE]}

\* TrustScoreExplainer.__init__ before load_model
NewExplainer ==
    [model_data |-> None, model |-> None, feature_engineer |-> None,
     feature_names |-> <<>>, explainer |-> None]

_initialize_shap_explainer(self) ==
    IF ~self.model.has_predict THEN self
    ELSE IF ~self.model.shap_init_ok THEN self
    ELSE [self EXCEPT !.explainer =
              IF self.model.tree THEN [kind |-> "TreeExplainer"]
              ELSE [kind |-> "LinearExplainer"]]

\* the assignments of load_model, in order, up to the first missing key
LoadedFields(self, unit, keys) ==
    [self EXCEPT !.model_data = unit,
                 !.model = IF "model" \in keys THEN unit.model ELSE @,
                 !.feature_engineer =
                     IF "feature_engineer" \in keys THEN unit.feature_engineer ELSE @,
                 !.feature_names =
                     IF "feature_names" \in keys THEN unit.feature_names ELSE @]

\* load_model: the explainer afterwards and the error raised
load_model(self, unit) ==
    IF "model" \notin DOMAIN unit
    THEN [self |-> LoadedFields(self, unit, {}), err |-> "KeyError"]
    ELSE IF "feature_engineer" \notin DOMAIN unit
    THEN [self |-> LoadedFields(self, unit, {"model"}), err |-> "KeyError"]
    ELSE IF "feature_names" \notin DOMAIN unit
    THEN [self |-> LoadedFields(self, unit, {"model", "feature_engineer"}),
          err |-> "KeyError"]
    ELSE IF "model_name" \notin DOMAIN unit
    THEN [self |-> LoadedFields(self, unit, {"model", "feature_engineer", "feature_names"}),
          err |-> "KeyError"]
    ELSE [self |-> _initialize_shap_explainer(
                       LoadedFields(self, unit,
                                    {"model", "feature_engineer", "feature_names"})),
          err |-> "none"]

\* the explainer of the state
SelfExplainer ==
    [model_data |-> model_data, model |-> model, feature_engineer |-> Self,
     feature_names |-> feature_names, explainer |-> explainer]

----------------------------------------------------------------------------
(* Persisted model units *)

\* the feature names of the unit the tests build
TestNames == <<"tx_count_log", "has_ens", "social_presence">>

\* a longer list: weighted features, the negative weight, a feature without
\* a weight and a name engineer_features never emits
LongNames ==
    <<"tx_count_log", "contract_interaction_ratio", "unique_contracts",
      "account_age_log", "risk_indicators", "farcaster_followers_log", "extra">>

\* the feature engineers a unit may hold: fresh, as in the tests, or fitted by
\* the trainer on the features of the empty and of the full record
UnitEngineers ==
    {NewEngineer(DefaultConfig),
     fit_scalers(NewEngineer(DefaultConfig),
                 <<engineer_features(NewEngineer(DefaultConfig), EmptyRecord)>>
                     \o <<engineer_features(NewEngineer(DefaultConfig), FullRecord)>>).self}

\* units with every key, one of them with an empty list of feature names
FullUnits ==
    {[model |-> m, model_name |-> "test_model", feature_engineer |-> fe,
      feature_names |-> names, model_performance |-> <<>>] :
        m \in Models, fe \in UnitEngineers, names \in {TestNames, LongNames}}
    \cup
    {[model |-> [has_predict |-> TRUE, tree |-> FALSE, shap_init_ok |-> FALSE],
      model_name |-> "test_model", feature_engineer |-> NewEngineer(DefaultConfig),
      feature_names |-> <<>>, model_performance |-> <<>>]}

\* one saved unit (the tests' unit)
TestUnit ==
    [model |-> [has_predict |-> TRUE, tree |-> FALSE, shap_init_ok |-> FALSE],
     model_name |-> "test_model", feature_engineer |-> NewEngineer(DefaultConfig),
     feature_names |-> TestNames, model_performance |-> <<>>]

\* the same unit with some of its keys missing
PartialUnits ==
    {[k \in (keys \cup {"model_performance"}) |-> TestUnit[k]] :
        keys \in (SUBSET {"model", "model_name", "feature_engineer", "feature_names"})
                     \ {{"model", "model_name", "feature_engineer", "feature_names"}}}

Units == FullUnits \cup PartialUnits

\* TrustScoreExplainer(model_path): __init__ raises what load_model raises,
\* and then no object is produced
Construct ==
    /\ model_data = None
    /\ \E unit \in Units :
        \E out \in {load_model(NewExplainer, unit)} :
            /\ op' = "load_model"
            /\ arg' = unit
            /\ ret' = <<>>
            /\ err' = out.err
            /\ IF out.err = "none"
               THEN /\ model_data' = out.self.model_data
                    /\ model' = out.self.model
                    /\ feature_names' = out.self.feature_names
                    /\ explainer' = out.self.explainer
                    /\ config' = out.self.feature_engineer.config
                    /\ scalers' = out.self.feature_engineer.scalers
                    /\ feature_stats' = out.self.feature_engineer.feature_stats
                    /\ is_fitted' = out.self.feature_engineer.is_fitted
               ELSE UNCHANGED <<explainer_fields, engineer>>
            /\ UNCHANGED disk

----------------------------------------------------------------------------
(* Contributions *)

\* FeatureContribution(...)
FeatureContribution(feature_name, value, contribution) ==
    [feature_name |-> feature_name,
     value |-> value,
     contribution |-> contribution,
     importance |-> AbsR(contribution),
     description |-> Get(feature_descriptions, feature_name, feature_name)]

\* raw_contribution = value * weight * 100, weight defaulting to 0.01
RawContribution(scaled_features, feature_name) ==
    Mul(Mul(Get(scaled_features, feature_name, R(0)),
            Get(feature_weights, feature_name, Q(1, 100))),
        R(100))

\* the list the loop over self.feature_names builds
RawContributions(self, scaled_features) ==
    [i \in DOMAIN self.feature_names |->
        FeatureContribution(self.feature_names[i],
                            Get(scaled_features, self.feature_names[i], R(0)),
                            RawContribution(scaled_features, self.feature_names[i]))]

\* total_weighted_contribution: the sum of abs(raw_contribution)
TotalWeightedContribution(contributions) ==
    SumSeq([i \in DOMAIN contributions |-> AbsR(contributions[i].contribution)])

\* Normalized without the test that the total is positive
NormalizedUnguarded(contributions, total_weighted_contribution, predicted_score) ==
    [i \in DOMAIN contributions |->
        [contributions[i] EXCEPT
            !.contribution =
                Mul(@, Div(Sub(predicted_score, R(50)), total_weighted_contribution))]]

\* contrib.contribution *= normalization_factor, when the total is positive
Normalized(contributions, total_weighted_contribution, predicted_score) ==
    IF Gt(total_weighted_contribution, R(0))
    THEN [i \in DOMAIN contributions |->
             [contributions[i] EXCEPT
                 !.contribution =
                     Mul(@, Div(Sub(predicted_score, R(50)), total_weighted_contribution))]]
    ELSE contributions

_get_deterministic_contributions(self, scaled_features, predicted_score) ==
    Normalized(RawContributions(self, scaled_features),
               TotalWeightedContribution(RawContributions(self, scaled_features)),
               predicted_score)

\* what self.explainer.shap_values does on one call: it raises, or it returns
\* one value for each of the first Len(values) features
ShapOutcomes ==
    {[raises |-> TRUE, values |-> <<>>],
     [raises |-> FALSE, values |-> <<R(7), R(6), R(5), R(4), R(3), R(2), R(1)>>],
     [raises |-> FALSE,
      values |-> <<R(2), R(-3), R(0), R(2), R(-1), Q(-1, 2), R(-4)>>]}

_get_shap_contributions(self, shap_outcome, scaled_features) ==
    IF shap_outcome.raises \/ Len(shap_outcome.values) < Len(self.feature_names)
    THEN _get_deterministic_contributions(self, scaled_features, R(50))
    ELSE [i \in DOMAIN self.feature_names |->
             FeatureContribution(self.feature_names[i],
                                 Get(scaled_features, self.feature_names[i], R(0)),
                                 shap_outcome.values[i])]

\* Contributions whose deterministic branch is given the base score
ContributionsFromBaseScore(self, scaled_features, predicted_score, shap_outcome) ==
    IF self.explainer # None
    THEN _get_shap_contributions(self, shap_outcome, scaled_features)
    ELSE _get_deterministic_contributions(self, scaled_features, R(50))

\* the branch of explain_prediction on self.explainer
Contributions(self, scaled_features, predicted_score, shap_outcome) ==
    IF self.explainer # None
    THEN _get_shap_contributions(self, shap_outcome, scaled_features)
    ELSE _get_deterministic_contributions(self, scaled_features, predicted_score)

----------------------------------------------------------------------------
(* Ranking, confidence and text *)

\* list.sort(key=contribution), stable: largest first for sign 1
\* (reverse=True), smallest first for sign -1
RECURSIVE InsertSorted(_, _, _)
InsertSorted(sorted, c, sign) ==
    IF sorted = <<>> THEN <<c>>
    ELSE IF Lt(Mul(R(sign), Head(sorted).contribution), Mul(R(sign), c.contribution))
    THEN <<c>> \o sorted
    ELSE <<Head(sorted)>> \o InsertSorted(Tail(sorted), c, sign)

RECURSIVE SortedFactors(_, _)
SortedFactors(factors, sign) ==
    IF factors = <<>> THEN <<>>
    ELSE InsertSorted(SortedFactors(SubSeq(factors, 1, Len(factors) - 1), sign),
                      factors[Len(factors)], sign)

\* positive_factors sorted without reverse=True
positive_factors_Ascending(contributions) ==
    SortedFactors(SelectSeq(contributions, LAMBDA c : Gt(c.contribution, R(0))), -1)

\* [c for c in contributions if c.contribution > 0], sorted with reverse=True
positive_factors(contributions) ==
    SortedFactors(SelectSeq(contributions, LAMBDA c : Gt(c.contribution, R(0))), 1)

\* [c for c in contributions if c.contribution < 0], sorted
negative_factors(contributions) ==
    SortedFactors(SelectSeq(contributions, LAMBDA c : Lt(c.contribution, R(0))), -1)

\* factors[:n]
Prefix(factors, n) == SubSeq(factors, 1, IF Len(factors) < n THEN Len(factors) ELSE n)

\* feature_availability * 40
AvailabilityConfidence(self, scaled_features) ==
    LET IsAvailable(name) == Get(scaled_features, name, R(0)) # R(0)
    IN  Mul(Q(Len(SelectSeq(self.feature_names, IsAvailable)), Len(self.feature_names)),
            R(40))

\* min(total_importance / 20, 1.0) * 30, added when total_importance > 0
ImportanceOfTotal(total_importance) ==
    IF Gt(total_importance, R(0))
    THEN Mul(Min(Div(total_importance, R(20)), R(1)), R(30))
    ELSE R(0)

ImportanceConfidence(contributions) ==
    ImportanceOfTotal(SumSeq([i \in DOMAIN contributions |-> contributions[i].importance]))

quality_features ==
    <<"tx_count_log", "account_age_log", "contract_interaction_ratio",
      "has_ens", "social_presence">>

\* QualityConfidence with 30 points for each quality feature
QualityConfidencePerFeature(scaled_features) ==
    LET IsQuality(name) == Gt(Get(scaled_features, name, R(0)), R(0))
    IN  Mul(R(Len(SelectSeq(quality_features, IsQuality))), R(30))

\* (quality_score / len(quality_features)) * 30
QualityConfidence(scaled_features) ==
    LET IsQuality(name) == Gt(Get(scaled_features, name, R(0)), R(0))
    IN  Mul(Q(Len(SelectSeq(quality_features, IsQuality)), Len(quality_features)), R(30))

\* _calculate_confidence, for a non-empty list of feature names
_calculate_confidence(self, scaled_features, contributions) ==
    Min(Add(Add(Add(R(0), AvailabilityConfidence(self, scaled_features)),
                ImportanceConfidence(contributions)),
            QualityConfidence(scaled_features)),
        R(100))

\* round to the nearest integer, ties to the even one: what format ".0f" prints
RoundHalfEven(a) ==
    (2 * a[1] + a[2]) \div (2 * a[2])
        - (IF (2 * a[1] + a[2]) % (2 * a[2]) = 0 /\ ((2 * a[1] + a[2]) \div (2 * a[2])) % 2 = 1
           THEN 1 ELSE 0)

\* score_category with the bands open at their lower bound
score_category_Exclusive(predicted_score) ==
    IF Lt(R(80), predicted_score) THEN "excellent"
    ELSE IF Lt(R(60), predicted_score) THEN "good"
    ELSE IF Lt(R(40), predicted_score) THEN "moderate"
    ELSE "low"

score_category(predicted_score) ==
    IF Le(R(80), predicted_score) THEN "excellent"
    ELSE IF Le(R(60), predicted_score) THEN "good"
    ELSE IF Le(R(40), predicted_score) THEN "moderate"
    ELSE "low"

trust_level(predicted_score) ==
    IF Le(R(80), predicted_score) THEN "highly trusted"
    ELSE IF Le(R(60), predicted_score) THEN "trusted"
    ELSE IF Le(R(40), predicted_score) THEN "moderately trusted"
    ELSE "low trust"

\* the opening sentence of the explanation
CategorySentence(predicted_score) ==
    "This wallet has a " \o score_category(predicted_score) \o " trust score of "
        \o ToString(RoundHalfEven(predicted_score)) \o "/100, indicating it is "
        \o trust_level(predicted_score) \o ". "

\* ', '.join(descriptions).lower()
RECURSIVE JoinLower(_)
JoinLower(descriptions) ==
    IF descriptions = <<>> THEN ""
    ELSE IF Len(descriptions) = 1 THEN Lower(descriptions[1])
    ELSE JoinLower(SubSeq(descriptions, 1, Len(descriptions) - 1))
             \o ", " \o Lower(descriptions[Len(descriptions)])

\* FactorClause that joins three descriptions without the final ", and"
FactorClauseCommaOnly(descriptions, singular, plural) ==
    IF descriptions = <<>> THEN ""
    ELSE IF Len(descriptions) = 1 THEN singular \o Lower(descriptions[1]) \o ". "
    ELSE IF Len(descriptions) = 2
    THEN plural \o Lower(descriptions[1]) \o " and " \o Lower(descriptions[2]) \o ". "
    ELSE plural \o JoinLower(descriptions) \o ". "

\* the clause for one sign: nothing, the singular form, "X and Y", or a comma list
FactorClause(descriptions, singular, plural) ==
    IF descriptions = <<>> THEN ""
    ELSE IF Len(descriptions) = 1 THEN singular \o Lower(descriptions[1]) \o ". "
    ELSE IF Len(descriptions) = 2
    THEN plural \o Lower(descriptions[1]) \o " and " \o Lower(descriptions[2]) \o ". "
    ELSE plural \o JoinLower(SubSeq(descriptions, 1, Len(descriptions) - 1))
             \o ", and " \o Lower(descriptions[Len(descriptions)]) \o ". "

_generate_explanation_text(predicted_score, top_positive, top_negative) ==
    CategorySentence(predicted_score)
        \o FactorClause([i \in DOMAIN top_positive |-> top_positive[i].description],
                        "The main positive factor is ", "Key positive factors include ")
        \o FactorClause([i \in DOMAIN top_negative |-> top_negative[i].description],
                        "The main concern is ", "Areas of concern include ")

----------------------------------------------------------------------------
(* explain_prediction and export_explanation *)

\* the scores self.model.predict returns
Scores == {Q(399, 10), R(40), R(50), Q(599, 10), R(60), R(75), Q(799, 10), R(80)}

\* what one call of explain_prediction is given: the record, and what the
\* model and the SHAP explainer answer
ExplainInputs ==
    {[wallet_data |-> wd, predicted_score |-> sc, shap_outcome |-> so] :
        wd \in {EmptyRecord, FullRecord, ExtremeRecord}, sc \in Scores, so \in ShapOutcomes}

\* TrustScoreExplanation(...) from the contributions and the two sorted lists
TrustScoreExplanation(predicted_score, contributions, positive, negative, confidence) ==
    [predicted_score |-> predicted_score,
     base_score |-> R(50),
     feature_contributions |-> contributions,
     top_positive_factors |-> Prefix(positive, 5),
     top_negative_factors |-> Prefix(negative, 5),
     confidence |-> confidence,
     explanation_text |->
         _generate_explanation_text(predicted_score, Prefix(positive, 3), Prefix(negative, 3))]

\* explain_prediction from the contributions on
Explained(self, scaled_features, predicted_score, contributions) ==
    IF self.feature_names = <<>>
    THEN [ret |-> None, err |-> "ZeroDivisionError"]
    ELSE [ret |-> TrustScoreExplanation(
                      predicted_score, contributions,
                      positive_factors(contributions), negative_factors(contributions),
                      _calculate_confidence(self, scaled_features, contributions)),
          err |-> "none"]

\* explain_prediction from the scaled features on
ExplainedScaled(self, scaled_features, predicted_score, shap_outcome) ==
    IF ~self.model.has_predict
    THEN [ret |-> None, err |-> "AttributeError"]
    ELSE Explained(self, scaled_features, predicted_score,
                   Contributions(self, scaled_features, predicted_score, shap_outcome))

\* explain_prediction: the explanation returned and the error raised
explain_prediction(self, wallet_data, predicted_score, shap_outcome) ==
    ExplainedScaled(self,
                    transform_features(self.feature_engineer,
                                       engineer_features(self.feature_engineer, wallet_data)),
                    predicted_score, shap_outcome)

\* explain_prediction, evaluated once for the explainers load_model builds from
\* the units and for the inputs of the model
ExplainTable ==
    Eager([self \in {load_model(NewExplainer, unit).self :
                        unit \in {u \in FullUnits :
                                     load_model(NewExplainer, u).err = "none"}} |->
        Eager([input \in ExplainInputs |->
            explain_prediction(self, input.wallet_data, input.predicted_score,
                               input.shap_outcome)])])

\* the factors of one sign as export_explanation lists them
ExportedFactors(factors) ==
    [i \in DOMAIN factors |->
        [factor |-> factors[i].description,
         contribution |-> factors[i].contribution,
         value |-> factors[i].value]]

\* export_explanation(explanation, 'dict')
ExportedDict(explanation) ==
    [predicted_score |-> explanation.predicted_score,
     confidence |-> explanation.confidence,
     explanation |-> explanation.explanation_text,
     top_positive_factors |-> ExportedFactors(explanation.top_positive_factors),
     top_negative_factors |-> ExportedFactors(explanation.top_negative_factors)]

Formats == {"dict", "json", "xml"}

\* export_explanation that renders the mapping for a format it does not know
export_explanation_DefaultsToDict(explanation, format) ==
    IF format = "json"
    THEN [explanation |-> explanation,
          ret |-> [json |-> ExportedDict(explanation), indent |-> 2], err |-> "none"]
    ELSE [explanation |-> explanation, ret |-> ExportedDict(explanation), err |-> "none"]

\* export_explanation: the explanation afterwards, the rendering and the error
export_explanation(explanation, format) ==
    IF format = "dict"
    THEN [explanation |-> explanation, ret |-> ExportedDict(explanation), err |-> "none"]
    ELSE IF format = "json"
    THEN [explanation |-> explanation,
          ret |-> [json |-> ExportedDict(explanation), indent |-> 2], err |-> "none"]
    ELSE [explanation |-> explanation, ret |-> None, err |-> "ValueError"]

----------------------------------------------------------------------------
(* The explainer's life *)

ExplainPrediction ==
    /\ model_data # None
    /\ \E input \in ExplainInputs :
        \E out \in {ExplainTable[SelfExplainer][input]} :
            /\ op' = "explain_prediction"
            /\ arg' = input
            /\ ret' = out.ret
            /\ err' = out.err
            /\ UNCHANGED <<engineer, disk, explainer_fields>>

\* export_explanation on the explanation the last explain_prediction returned
ExportExplanation ==
    /\ op = "explain_prediction"
    /\ err = "none"
    /\ \E format \in Formats :
        \E out \in {export_explanation(ret, format)} :
            /\ op' = "export_explanation"
            /\ arg' = [explanation |-> out.explanation, format |-> format]
            /\ ret' = out.ret
            /\ err' = out.err
            /\ UNCHANGED <<engineer, disk, explainer_fields>>

InitExplain == Init /\ config = DefaultConfig

NextExplain == Construct \/ ExplainPrediction \/ ExportExplanation

SpecExplain == InitExplain /\ [][NextExplain]_vars

----------------------------------------------------------------------------
(* Claims about the contribution paths, checked under SpecExplain *)

ExplainCalled == op = "explain_prediction"

ExplainReturned == op = "explain_prediction" /\ err = "none"

\* the scaled features explain_prediction computed for the last call
ScaledFeatures ==
    transform_features(Self, engineer_features(Self, arg.wallet_data))

\* what the deterministic path gives for the last call's features and the
\* score the model predicted
DeterministicForPredictedScore ==
    _get_deterministic_contributions(SelfExplainer, ScaledFeatures, arg.predicted_score)

\* the last call held a SHAP explainer and shap_values raised
ShapRaised == ExplainCalled /\ explainer # None /\ arg.shap_outcome.raises

\* C11: when the SHAP explainer is held but raises during explain_prediction,
\* no error is propagated and the feature contributions returned are those the
\* deterministic path computes for the same scaled features and the score the
\* model predicted for the request.
C11_FallbackUsesPredictedScore ==
    ShapRaised =>
        /\ err = "none"
        /\ ret.feature_contributions = DeterministicForPredictedScore

\* the last call was made on an explainer that holds no SHAP explainer
NoShapHeld == ExplainCalled /\ explainer = None

\* a unit was loaded whose model has no predict or whose SHAP explainer
\* could not be built
LoadedWithoutShap ==
    /\ op = "load_model"
    /\ err = "none"
    /\ (~arg.model.has_predict \/ ~arg.model.shap_init_ok)

DeterministicPath == ExplainReturned /\ (explainer = None \/ arg.shap_outcome.raises)

\* the sum of |scaled_value * weight * 100| over the declared feature names
NormalizationBase ==
    TotalWeightedContribution(RawContributions(SelfExplainer, ScaledFeatures))

\* the sum of the signed contributions returned
ContributionSum ==
    SumSeq([i \in DOMAIN ret.feature_contributions |->
               ret.feature_contributions[i].contribution])

\* C13: in the deterministic path, whenever the normalization base is greater
\* than zero, the signed contributions returned sum to predicted_score - 50,
\* for scaled features of either sign and every predicted score.
C13_ContributionsSumToDeviation ==
    (ExplainReturned /\ explainer = None /\ Gt(NormalizationBase, R(0)))
        => ContributionSum = Sub(arg.predicted_score, R(50))

\* every declared feature has scaled value zero
AllDeclaredZero ==
    \A i \in DOMAIN feature_names : Get(ScaledFeatures, feature_names[i], R(0)) = R(0)

\* C14: in the deterministic path, if every declared feature has scaled value
\* zero, the normalization base is zero, the contributions are returned as
\* computed (no rescaling), every contribution and importance is zero whatever
\* the predicted score, and the magnitude component adds nothing to the
\* confidence.
C14_ZeroFeaturesGiveZeroContributions ==
    (DeterministicPath /\ AllDeclaredZero) =>
        /\ NormalizationBase = R(0)
        /\ ret.feature_contributions = RawContributions(SelfExplainer, ScaledFeatures)
        /\ \A i \in DOMAIN ret.feature_contributions :
               /\ ret.feature_contributions[i].contribution = R(0)
               /\ ret.feature_contributions[i].importance = R(0)
        /\ ImportanceConfidence(ret.feature_contributions) = R(0)
        /\ ret.confidence =
               Min(Add(AvailabilityConfidence(SelfExplainer, ScaledFeatures),
                       QualityConfidence(ScaledFeatures)),
                   R(100))

\* an explanation on the deterministic path of all-zero declared features,
\* for a predicted score away from the base score
C14_Witness ==
    /\ DeterministicPath
    /\ explainer = None
    /\ AllDeclaredZero
    /\ arg.predicted_score = R(80)
    /\ Len(ret.feature_contributions) = 3

----------------------------------------------------------------------------
(* Claims about ranking and confidence, checked under SpecExplain *)

\* the places of feature_contributions whose contribution is positive
PositivePlaces ==
    {i \in DOMAIN ret.feature_contributions :
        Gt(ret.feature_contributions[i].contribution, R(0))}

\* the places of feature_contributions whose contribution is negative
NegativePlaces ==
    {i \in DOMAIN ret.feature_contributions :
        Lt(ret.feature_contributions[i].contribution, R(0))}

\* a comes strictly before b: a > b for sign 1, a < b for sign -1
Before(a, b, sign) == Gt(Mul(R(sign), a), Mul(R(sign), b))

\* top holds the first at most 5 of the contributions at places, taken in the
\* order of sign (no entry that is left out comes strictly before one taken)
IsTopFive(top, places, sign) ==
    /\ Len(top) = (IF Cardinality(places) < 5 THEN Cardinality(places) ELSE 5)
    /\ \A k \in DOMAIN top : \E i \in places : ret.feature_contributions[i] = top[k]
    /\ \A k, l \in DOMAIN top : k # l => top[k] # top[l]
    /\ \A k, l \in DOMAIN top : k < l => ~Before(top[l].contribution, top[k].contribution, sign)
    /\ \A i \in places :
           \/ \E k \in DOMAIN top : top[k] = ret.feature_contributions[i]
           \/ \A k \in DOMAIN top :
                  ~Before(ret.feature_contributions[i].contribution,
                          top[k].contribution, sign)

\* C15: top_positive_factors holds only contributions > 0, largest first,
\* top_negative_factors only contributions < 0, most negative first; each is
\* the first at most 5 entries of the sorted list of its sign drawn from
\* feature_contributions, and a contribution of exactly 0 is in neither.
C15_TopFactorsRankedBySign ==
    ExplainReturned =>
        /\ IsTopFive(ret.top_positive_factors, PositivePlaces, 1)
        /\ IsTopFive(ret.top_negative_factors, NegativePlaces, -1)
        /\ \A k \in DOMAIN ret.top_positive_factors :
               Gt(ret.top_positive_factors[k].contribution, R(0))
        /\ \A k \in DOMAIN ret.top_negative_factors :
               Lt(ret.top_negative_factors[k].contribution, R(0))

\* an explanation with more than five positive contributions, of which the
\* five largest are kept
C15_Witness ==
    /\ ExplainReturned
    /\ Cardinality(PositivePlaces) > 5
    /\ Len(ret.top_positive_factors) = 5
    /\ Gt(ret.top_positive_factors[1].contribution, ret.top_positive_factors[5].contribution)

\* C16: the confidence returned lies in [0, 100]; it is the sum of an
\* availability component of at most 40, a magnitude component of at most 30
\* and a quality component of at most 30, clamped to 100.
C16_ConfidenceWithinBounds ==
    ExplainReturned =>
        LET availability == AvailabilityConfidence(SelfExplainer, ScaledFeatures)
            magnitude == ImportanceConfidence(ret.feature_contributions)
            quality == QualityConfidence(ScaledFeatures)
        IN  /\ Le(R(0), ret.confidence) /\ Le(ret.confidence, R(100))
            /\ Le(R(0), availability) /\ Le(availability, R(40))
            /\ Le(R(0), magnitude) /\ Le(magnitude, R(30))
            /\ Le(R(0), quality) /\ Le(quality, R(30))
            /\ ret.confidence = Min(Add(Add(availability, magnitude), quality), R(100))

\* an explanation whose three components are all at their caps
C16_Witness ==
    /\ ExplainReturned
    /\ ret.confidence = R(100)
    /\ AvailabilityConfidence(SelfExplainer, ScaledFeatures) = R(40)
    /\ ImportanceConfidence(ret.feature_contributions) = R(30)

----------------------------------------------------------------------------
(* Claims about the explanation text, checked under SpecExplain *)

StartsWith(text, prefix) ==
    Len(prefix) <= Len(text) /\ SubSeq(text, 1, Len(prefix)) = prefix

Contains(text, part) ==
    \E i \in 1..(Len(text) - Len(part) + 1) : SubSeq(text, i, i + Len(part) - 1) = part

\* the text names the category and the trust level
NamesCategory(text, category, level) ==
    /\ StartsWith(text, "This wallet has a " \o category \o " trust score of ")
    /\ Contains(text, "/100, indicating it is " \o level \o ". ")

\* C17: the text names excellent/highly trusted exactly when the score is at
\* least 80, good/trusted exactly when it is in [60, 80), moderate/moderately
\* trusted exactly when it is in [40, 60), and low/low trust otherwise; 80 is
\* excellent and 79.9 is not.
C17_CategoryBands ==
    ExplainReturned =>
        LET text == ret.explanation_text
            score == ret.predicted_score
        IN  /\ NamesCategory(text, "excellent", "highly trusted") <=> Le(R(80), score)
            /\ NamesCategory(text, "good", "trusted")
                   <=> (Le(R(60), score) /\ Lt(score, R(80)))
            /\ NamesCategory(text, "moderate", "moderately trusted")
                   <=> (Le(R(40), score) /\ Lt(score, R(60)))
            /\ NamesCategory(text, "low", "low trust") <=> Lt(score, R(40))

\* an explanation of a score of exactly 80, named excellent
C17_Witness ==
    /\ ExplainReturned
    /\ ret.predicted_score = R(80)
    /\ NamesCategory(ret.explanation_text, "excellent", "highly trusted")

\* the lower-cased descriptions of the first at most 3 factors of a list
TopThreeNames(factors) ==
    [i \in 1..(IF Len(factors) < 3 THEN Len(factors) ELSE 3) |->
        Lower(factors[i].description)]

\* the clause the text is to hold for the names of one sign
ClauseFor(names, singular, plural) ==
    CASE Len(names) = 0 -> ""
      [] Len(names) = 1 -> singular \o names[1] \o ". "
      [] Len(names) = 2 -> plural \o names[1] \o " and " \o names[2] \o ". "
      [] Len(names) = 3 ->
             plural \o names[1] \o ", " \o names[2] \o ", and " \o names[3] \o ". "

\* C18: the text begins with the category sentence; it holds a positive clause
\* exactly when some contribution is > 0 and a negative clause exactly when
\* some contribution is < 0; each clause names at most the top 3 factors of its
\* sign: singular phrasing for 1, "X and Y" for 2, a comma list ending in
\* ", and Z" for 3.
C18_TextClauses ==
    ExplainReturned =>
        LET text == ret.explanation_text
            positive == TopThreeNames(ret.top_positive_factors)
            negative == TopThreeNames(ret.top_negative_factors)
        IN  /\ StartsWith(text, CategorySentence(ret.predicted_score))
            /\ (PositivePlaces # {}) <=> Contains(text, " positive factor")
            /\ (NegativePlaces # {}) <=> Contains(text, " concern ")
            /\ (PositivePlaces # {}) <=> (positive # <<>>)
            /\ (NegativePlaces # {}) <=> (negative # <<>>)
            /\ text = CategorySentence(ret.predicted_score)
                          \o ClauseFor(positive, "The main positive factor is ",
                                       "Key positive factors include ")
                          \o ClauseFor(negative, "The main concern is ",
                                       "Areas of concern include ")

\* an explanation with two positive factors and more than three negative ones
C18_Witness ==
    /\ ExplainReturned
    /\ Cardinality(NegativePlaces) > 3
    /\ Cardinality(PositivePlaces) = 2
    /\ Contains(ret.explanation_text, ", and ")
    /\ Contains(ret.explanation_text, "Key positive factors include ")

----------------------------------------------------------------------------
(* Claims about export_explanation and load_model, checked under SpecExplain *)

SupportedFormats == {"dict", "json"}

\* C19: export_explanation with a format other than 'dict' and 'json' raises
\* ValueError and returns nothing; with 'dict' or 'json' it never fails; in
\* both cases the explanation it was given is left as it was.
C19_UnsupportedFormatRejected ==
    [][(op' = "export_explanation") =>
           /\ arg'.explanation = ret
           /\ (arg'.format \notin SupportedFormats) => (err' = "ValueError" /\ ret' = None)
           /\ (arg'.format \in SupportedFormats) => (err' = "none" /\ ret' # None)]_vars

\* an export that was refused for its format
C19_Witness ==
    /\ op = "export_explanation"
    /\ arg.format = "xml"
    /\ err = "ValueError"

RequiredKeys == {"model", "feature_engineer", "feature_names"}

\* C20: loading a unit succeeds, exposing the stored model, feature engineer
\* and feature names, exactly when the unit holds the three required fields;
\* when one is missing the load raises and no explainer is produced.
C20_LoadsExactlyWithRequiredFields ==
    (op = "load_model") =>
        /\ (err = "none") <=> (RequiredKeys \subseteq DOMAIN arg)
        /\ (err = "none") =>
               /\ model = arg.model
               /\ Self = arg.feature_engineer
               /\ feature_names = arg.feature_names
        /\ (err # "none") => NoExplainer

----------------------------------------------------------------------------
(* Engineers that share one scaler file: the engineer of the state is replaced *)
(* by a newly constructed one while the file stays on disk                     *)

\* FeatureEngineer(config): a new engineer takes the place of the one in the state
NewFeatureEngineer ==
    \E cfg \in Configs :
        \E out \in {NewEngineer(cfg)} :
            /\ op' = "__init__"
            /\ arg' = cfg
            /\ ret' = <<>>
            /\ err' = "none"
            /\ config' = out.config
            /\ scalers' = out.scalers
            /\ feature_stats' = out.feature_stats
            /\ is_fitted' = out.is_fitted
            /\ UNCHANGED <<disk, explainer_fields>>

NextRoundTrip == NewFeatureEngineer \/ FitTrainingBatch \/ SaveScalers \/ LoadScalers

SpecRoundTrip == Init /\ [][NextRoundTrip]_vars

----------------------------------------------------------------------------
(* Claims about the scaler file, checked under SpecRoundTrip *)

\* the engineer whose state the file holds
SavedEngineer ==
    [config |-> disk.config, scalers |-> disk.scalers,
     feature_stats |-> disk.feature_stats, is_fitted |-> TRUE]

\* engineer_features followed by transform_features, on every record
Pipeline(self) ==
    [r \in Records |-> transform_features(self, engineer_features(self, r))]

\* C21: save_scalers on a fitted engineer A writes A's scalers, statistics and
\* config to the file, and load_scalers of that file on any engineer B (fresh or
\* fitted, whatever its config) leaves B fitted with scalers, statistics and
\* config equal to the saved ones, so that engineer_features and
\* transform_features give on B the results they give on A for every record.
C21_SaveLoadRoundTrip ==
    /\ (op = "save_scalers" /\ is_fitted) => SavedEngineer = Self
    /\ (op = "load_scalers" /\ err = "none") =>
           /\ is_fitted
           /\ scalers = disk.scalers
           /\ feature_stats = disk.feature_stats
           /\ config = disk.config
           /\ Pipeline(Self) = Pipeline(SavedEngineer)

\* a file saved by an engineer without log transform or robust scaling, loaded
\* into an engineer whose state then scales the full record with the file's scalers
C21_Witness ==
    /\ op = "load_scalers"
    /\ err = "none"
    /\ ~config.use_log_transform
    /\ ~config.use_robust_scaling
    /\ scalers # EmptyDict
    /\ scalers.tx_count.kind = "StandardScaler"
    /\ Pipeline(Self)[FullRecord] # AllFeaturesOf(config, FullRecord)

----------------------------------------------------------------------------
(* An explainer in service: explanations one at a time and in batches, next *)
(* to calls of its feature engineer                                         *)

\* longest list handed to batch_explain
MaxExplainBatch == 2

\* what the calls of explain_prediction inside batch_explain are given
BatchInputs ==
    {input \in ExplainInputs :
        /\ input.wallet_data \in {EmptyRecord, FullRecord}
        /\ \/ input.predicted_score = R(40) /\ input.shap_outcome.raises
           \/ /\ input.predicted_score = R(75)
              /\ input.shap_outcome.values = <<R(7), R(6), R(5), R(4), R(3), R(2), R(1)>>}

\* the loop of batch_explain over the outcomes of its calls of explain_prediction:
\* the first exception leaves the loop, otherwise every explanation is appended
RECURSIVE Appended(_, _)
Appended(explanations, outcomes) ==
    IF outcomes = <<>> THEN [ret |-> explanations, err |-> "none"]
    ELSE IF Head(outcomes).err # "none" THEN [ret |-> None, err |-> Head(outcomes).err]
    ELSE Appended(Append(explanations, Head(outcomes).ret), Tail(outcomes))

\* batch_explain that puts every explanation in front of the earlier ones
batch_explain_Prepends(self, wallet_data_list) ==
    Appended(<<>>, [i \in DOMAIN wallet_data_list |->
                       ExplainTable[self][wallet_data_list[Len(wallet_data_list) + 1 - i]]])

\* batch_explain: the list returned and the error raised
batch_explain(self, wallet_data_list) ==
    Appended(<<>>, [i \in DOMAIN wallet_data_list |-> ExplainTable[self][wallet_data_list[i]]])

BatchExplain ==
    /\ model_data # None
    /\ \E wallet_data_list \in SeqsUpTo(BatchInputs, MaxExplainBatch) :
        \E out \in {batch_explain(SelfExplainer, wallet_data_list)} :
            /\ op' = "batch_explain"
            /\ arg' = wallet_data_list
            /\ ret' = out.ret
            /\ err' = out.err
            /\ UNCHANGED <<engineer, disk, explainer_fields>>

NextServe ==
    Construct \/ ExplainPrediction \/ BatchExplain \/ EngineerFeatures \/ TransformFeatures

SpecServe == InitExplain /\ [][NextServe]_vars

----------------------------------------------------------------------------
(* Claims about an explainer in service, checked under SpecServe *)

\* explain_prediction on one record alone, by the explainer as it was loaded
ExplainedAlone(input) ==
    explain_prediction([SelfExplainer EXCEPT !.feature_engineer = model_data.feature_engineer],
                       input.wallet_data, input.predicted_score, input.shap_outcome)

\* every record of the last batch is explained without an error when explained alone
EveryRecordExplained == \A i \in DOMAIN arg : ExplainedAlone(arg[i]).err = "none"

\* C22: whatever calls were made before, batch_explain returns one explanation per
\* input record, in input order, each equal to the explanation explain_prediction
\* gives for that record alone, whatever the other records of the batch are; when
\* explain_prediction raises on a record, batch_explain raises the error of the
\* first such record.
C22_BatchExplainsEachRecordAlone ==
    (op = "batch_explain") =>
        /\ EveryRecordExplained =>
               /\ err = "none"
               /\ Len(ret) = Len(arg)
               /\ \A i \in DOMAIN arg : ret[i] = ExplainedAlone(arg[i]).ret
        /\ ~EveryRecordExplained =>
               /\ ret = None
               /\ \E i \in DOMAIN arg :
                      /\ err = ExplainedAlone(arg[i]).err
                      /\ err # "none"
                      /\ \A j \in 1..(i - 1) : ExplainedAlone(arg[j]).err = "none"

\* a batch of two different records explained by a fitted explainer, the
\* second after a SHAP failure, with two different explanations in input order
C22_Witness ==
    /\ op = "batch_explain"
    /\ err = "none"
    /\ is_fitted
    /\ explainer # None
    /\ Len(arg) = 2
    /\ arg[1].wallet_data = FullRecord
    /\ arg[2].wallet_data = EmptyRecord
    /\ arg[2].shap_outcome.raises
    /\ ret[1] # ret[2]
    /\ ret[1].predicted_score = arg[1].predicted_score
    /\ ret[2].predicted_score = arg[2].predicted_score

\* the explainer was loaded from a unit whose feature engineer had been fitted
LoadedFitted == model_data # None /\ model_data.feature_engineer.is_fitted

\* C23: once fitting has completed, engineer_features, transform_features and
\* explain_prediction (alone or inside batch_explain) leave the scaler store, the
\* feature statistics, the fitted flag and the config as the fit left them, so
\* after any interleaving of these calls each call returns what it returns when
\* it is the only call made on the fitted engineer.
C23_ReadOnlyAfterFit ==
    LoadedFitted =>
        /\ Self = model_data.feature_engineer
        /\ (op = "engineer_features") =>
               ret = engineer_features(model_data.feature_engineer, arg)
        /\ (op = "transform_features") =>
               ret = transform_features(model_data.feature_engineer, arg)
        /\ (op = "explain_prediction") =>
               [ret |-> ret, err |-> err] = ExplainedAlone(arg)

\* an explanation of the extreme record by a fitted explainer: its first
\* contribution is computed from the scaled value, not from the raw one
C23_Witness ==
    /\ LoadedFitted
    /\ op = "explain_prediction"
    /\ err = "none"
    /\ arg.wallet_data = ExtremeRecord
    /\ ret.feature_contributions[1].feature_name = "tx_count_log"
    /\ ret.feature_contributions[1].value # AllFeaturesOf(config, ExtremeRecord).tx_count_log

----------------------------------------------------------------------------
(* Claims about repeated and successive calls, checked under Spec *)

\* C24: after fit_scalers on a batch, transform_features called again with the
\* input of the last call, with no fit or load in between, returns the output
\* the last call returned: the call has left the engineer in a state in which
\* the same input is scaled to the same output.
C24_RepeatedTransformIdentical ==
    (is_fitted /\ Transformed) => ret = transform_features(Self, arg)

\* the features of the full record, a sample of the fitting batch, scaled by
\* the scalers fitted on the batch of the empty and the full record
C24_Witness ==
    /\ is_fitted
    /\ Transformed
    /\ arg = engineer_features(NewEngineer(config), FullRecord)
    /\ feature_stats.min.tx_count = R(0)
    /\ feature_stats.max.tx_count = R(4)
    /\ ret # arg

\* the '_log' twin of every count or value feature
LogTwinOf ==
    [tx_count |-> "tx_count_log",
     contract_interactions |-> "contract_interactions_log",
     unique_contracts |-> "unique_contracts_log",
     avg_tx_value |-> "avg_tx_value_log",
     swap_frequency |-> "swap_frequency_log",
     bridge_transactions |-> "bridge_transactions_log",
     account_age |-> "account_age_log",
     farcaster_followers |-> "farcaster_followers_log",
     github_contributions |-> "github_contributions_log"]

BooleanNames == {"has_ens", "has_farcaster", "has_github"}

\* C25: every count or value feature has a '_log' twin that is log1p of the raw
\* value when use_log_transform is set and the raw value when it is not, and no
\* ratio or boolean feature depends on the option.
C25_LogTwinsUniform ==
    Engineered =>
        /\ \A name \in DOMAIN LogTwinOf :
               /\ LogTwinOf[name] \in DOMAIN ret
               /\ ret[LogTwinOf[name]] =
                      IF config.use_log_transform
                      THEN Log1p(Raw(arg, SignalOf[name]))
                      ELSE Raw(arg, SignalOf[name])
        /\ \A name \in RatioNames \cup BooleanNames :
               ret[name] =
                   engineer_features(
                       [Self EXCEPT !.config.use_log_transform = ~config.use_log_transform],
                       arg)[name]

----------------------------------------------------------------------------
(* Training: the synthetic dataset (ml/generate_synth.py) and the trainer's *)
(* prepare_features (ml/train.py)                                           *)

\* largest total_samples handed to generate_dataset
MaxSamples == 8

\* the default archetype_distribution, in the order of the dict, with the
\* trust_range of each archetype
archetype_distribution ==
    <<[archetype |-> "high_trust_defi_user", proportion |-> Q(25, 100),
       trust_range |-> <<80, 95>>],
      [archetype |-> "medium_trust_trader", proportion |-> Q(30, 100),
       trust_range |-> <<60, 79>>],
      [archetype |-> "low_trust_new_user", proportion |-> Q(25, 100),
       trust_range |-> <<40, 59>>],
      [archetype |-> "very_low_trust_suspicious", proportion |-> Q(15, 100),
       trust_range |-> <<10, 39>>],
      [archetype |-> "whale_investor", proportion |-> Q(5, 100),
       trust_range |-> <<85, 98>>]>>

\* the lists of profiles the loop over the distribution can build:
\* int(total_samples * proportion) profiles per archetype, each with a
\* trust_label at one end of the archetype's trust_range
RECURSIVE Profiles(_, _)
Profiles(distribution, total_samples) ==
    IF distribution = <<>> THEN {<<>>}
    ELSE {first \o rest :
            first \in [1..Floor(Mul(R(total_samples), Head(distribution).proportion)) ->
                          {[archetype |-> Head(distribution).archetype,
                            trust_label |-> R(Head(distribution).trust_range[k])] :
                               k \in 1..2}],
            rest \in Profiles(Tail(distribution), total_samples)}

\* _add_realistic_noise: a DataFrame built from no rows has no column
\* 'trust_score'; otherwise the scores are clipped to [0, 100]
_add_realistic_noise(df) ==
    IF df = <<>>
    THEN [df |-> None, err |-> "KeyError"]
    ELSE [df |-> [i \in DOMAIN df |->
                     [df[i] EXCEPT !.trust_score = Min(Max(@, R(0)), R(100))]],
          err |-> "none"]

\* generate_dataset(total_samples) with the default distribution; of a row
\* the model keeps the trust_score
GenerateDataset ==
    \E total_samples \in 0..MaxSamples :
        \E profiles \in Profiles(archetype_distribution, total_samples) :
            \E out \in {_add_realistic_noise(
                            [i \in DOMAIN profiles |->
                                [trust_score |-> profiles[i].trust_label]])} :
                /\ op' = "generate_dataset"
                /\ arg' = total_samples
                /\ ret' = out.df
                /\ err' = out.err
                /\ UNCHANGED <<engineer, disk, explainer_fields>>

\* prepare_features from the list of wallet records on, by a trainer whose
\* engineer is not fitted yet: engineer every record, fit the scalers on the
\* engineered maps, transform each of them; the result is X_list
PrepareFeatures ==
    /\ ~is_fitted
    /\ \E wallet_data_list \in
             SeqsUpTo({EmptyRecord, FullRecord}, MaxBatch) \cup {OutlierRecords} :
        \E engineered_features_list \in
               {[i \in DOMAIN wallet_data_list |->
                    engineer_features(Self, wallet_data_list[i])]} :
            \E out \in {fit_scalers(Self, engineered_features_list)} :
                /\ op' = "prepare_features"
                /\ arg' = wallet_data_list
                /\ err' = out.err
                /\ ret' = IF out.err = "none"
                          THEN [i \in DOMAIN engineered_features_list |->
                                   transform_features(out.self, engineered_features_list[i])]
                          ELSE None
                /\ scalers' = out.self.scalers
                /\ feature_stats' = out.self.feature_stats
                /\ is_fitted' = out.self.is_fitted
                /\ UNCHANGED <<config, disk, explainer_fields>>

NextTrain == GenerateDataset \/ PrepareFeatures

SpecTrain == InitPersist /\ [][NextTrain]_vars

----------------------------------------------------------------------------
(* Claims about training, checked under SpecTrain *)

\* C26: generate_dataset(total_samples = n) with the default distribution
\* returns exactly n rows for every n >= 0, each with a trust_score in [0, 100].
C26_DatasetHasRequestedRows ==
    (op = "generate_dataset") =>
        /\ err = "none"
        /\ Len(ret) = arg
        /\ \A i \in DOMAIN ret :
               Le(R(0), ret[i].trust_score) /\ Le(ret[i].trust_score, R(100))

\* C29: for every record of the fitting batch, the scaled feature map computed
\* at inference (engineer_features then transform_features, both after the fit)
\* equals the scaled feature map computed for that record during training
\* (engineer_features before the fit, transform_features after it), records
\* with whitelisted values beyond the outlier threshold included.
C29_TrainAndInferenceAgree ==
    (op = "prepare_features" /\ err = "none") =>
        \A i \in DOMAIN arg :
            transform_features(Self, engineer_features(Self, arg[i])) = ret[i]

----------------------------------------------------------------------------
(* Claims about the returned contributions, checked under SpecExplain *)

\* the contribution at place i of the last explanation is among its negative factors
ListedNegative(i) ==
    \E k \in DOMAIN ret.top_negative_factors :
        ret.top_negative_factors[k] = ret.feature_contributions[i]

\* C27: in the deterministic path, for every predicted score, a feature with a
\* positive weight and a positive scaled value has a contribution >= 0 and is
\* not listed among the negative factors, and risk_indicators, whose weight is
\* negative, has a contribution <= 0 when its scaled value is positive.
C27_PositiveWeightsIncreaseTrust ==
    DeterministicPath =>
        \A i \in DOMAIN ret.feature_contributions :
            /\ ( /\ Gt(Get(feature_weights, ret.feature_contributions[i].feature_name,
                           Q(1, 100)), R(0))
                 /\ Gt(ret.feature_contributions[i].value, R(0)) )
                   => ( /\ Le(R(0), ret.feature_contributions[i].contribution)
                        /\ ~ListedNegative(i) )
            /\ ( /\ ret.feature_contributions[i].feature_name = "risk_indicators"
                 /\ Gt(ret.feature_contributions[i].value, R(0)) )
                   => Le(ret.feature_contributions[i].contribution, R(0))

\* C28: every FeatureContribution of a returned explanation, on the SHAP path
\* and on the deterministic path alike, has importance = |contribution|.
C28_ImportanceIsAbsContribution ==
    ExplainReturned =>
        \A i \in DOMAIN ret.feature_contributions :
            ret.feature_contributions[i].importance =
                AbsR(ret.feature_contributions[i].contribution)

----------------------------------------------------------------------------
(* Claim about successive fits, checked under Spec *)

\* C30: in every state reached by successful fit_scalers calls, a second fit on
\* a batch with other feature names included, the feature names that hold a
\* scaler entry are the feature names of the feature statistics, and after a
\* fit both are the names of the batch just fitted.
C30_ScalersAndStatsNameTheSameFeatures ==
    is_fitted =>
        /\ DOMAIN scalers = DOMAIN feature_stats.mean
        /\ (op = "fit_scalers" /\ err = "none") => DOMAIN scalers = Columns(arg)

====
